---- MODULE Spec2Model ----
(***************************************************************************)
(* Memory Puzzle Game: the board engine of memory_puzzle/game.py (Board,   *)
(* Tile) over the identity catalog of memory_puzzle/assets.py.             *)
(*                                                                         *)
(* One Board object is followed from its constructor call through any      *)
(* sequence of reveal(row, col) and hide_unmatched(a, b) calls.  A Tile    *)
(* object is referred to by its position <<row, col>> (0-based, as in      *)
(* Tile.row and Tile.col); Python's None is the empty tuple.               *)
(***************************************************************************)
EXTENDS Integers, Sequences, FiniteSets, TLC

(***************************************************************************)
(* Bounds of the exploration.                                              *)
(***************************************************************************)
\* boards of every shape rows x cols with at most MaxTiles tiles are built
MaxTiles == 4
\* Random.sample draws from the first needed_pairs + SampleSpread identities
SampleSpread == 0
\* the move counter is explored up to MaxMoves
MaxMoves == 2
\* a MemoryApp session builds at most MaxGames boards
MaxGames == 2
\* a session is started without a seed or with a seed in 1..MaxSeed
MaxSeed == 1

(***************************************************************************)
(* assets.py: the identity catalog.                                        *)
(***************************************************************************)
NumGlyphs == 8
NumColors == 9

\* [(g.name, c) for g in GLYPHS for c in PALETTE]; an identity is the pair
\* <<index of the glyph in GLYPHS, index of the colour in PALETTE>>
available_identities ==
    [i \in 1..(NumGlyphs * NumColors) |->
        <<((i - 1) \div NumColors) + 1, ((i - 1) % NumColors) + 1>>]

(***************************************************************************)
(* Helpers.                                                                *)
(***************************************************************************)
None == <<>>

\* settings.py: DEFAULT_SEED = None
DEFAULT_SEED == None

Min(a, b) == IF a <= b THEN a ELSE b

\* Tile(row, col, identity) with the dataclass defaults
NewTile(r, c, identity) ==
    [row |-> r, col |-> c, identity |-> identity,
     revealed |-> FALSE, matched |-> FALSE]

\* the reference to a Tile object
Ref(t) == <<t.row, t.col>>

\* the Tile object behind a reference
Deref(grid, ref) == grid[ref[1] + 1][ref[2] + 1]

\* every Tile object held by a grid
TileRefs(grid) ==
    UNION {{<<r - 1, c - 1>> : c \in DOMAIN grid[r]} : r \in DOMAIN grid}

(***************************************************************************)
(* The outcomes of the random generator.                                   *)
(***************************************************************************)
\* mutant of SampleOutcomes: the draw is made with replacement
\* (Random.choices in place of Random.sample)
SampleWithReplacement(population, k) ==
    LET w == Min(Len(population), k + SampleSpread)
    IN  {[i \in 1..k |-> population[p[i]]] : p \in [1..k -> 1..w]}

\* Random.sample(population, k): k elements at distinct positions, in any
\* order (positions drawn within the exploration window)
SampleOutcomes(population, k) ==
    LET w == Min(Len(population), k + SampleSpread)
    IN  {[i \in 1..k |-> population[p[i]]] :
            p \in {q \in [1..k -> 1..w] :
                      \A i, j \in 1..k : i # j => q[i] # q[j]}}

\* [*chosen, *chosen]
MakePool(chosen) == chosen \o chosen

\* Random.shuffle(pool): any rearrangement of the list
ShuffleOutcomes(pool) ==
    {[i \in 1..Len(pool) |-> pool[p[i]]] : p \in Permutations(1..Len(pool))}

(***************************************************************************)
(* game.py: Board.                                                         *)
(***************************************************************************)
\* Board.__init__ up to the call of _build
InitFields(level) ==
    [rows |-> level[1], cols |-> level[2], grid |-> <<>>,
     moves |-> 0, matched_pairs |-> 0, first_selection |-> None]

\* mutant of EvenTiles: the parity assertion is missing
ParityNotChecked(num_tiles) == TRUE

\* assert num_tiles % 2 == 0
EvenTiles(num_tiles) == num_tiles % 2 = 0

\* if needed_pairs > len(ids): raise ValueError
EnoughIdentities(needed_pairs, ids) == ~(needed_pairs > Len(ids))

\* the fill loop of _build: rows are appended to the grid once complete, and
\* pool[k] raises IndexError when the pool is exhausted before the grid is
\* full; created counts the Tile objects constructed
FillGrid(rows, cols, pool) ==
    LET full == IF cols = 0 THEN rows ELSE Min(rows, Len(pool) \div cols)
    IN  [grid    |-> [r \in 1..full |->
                        [c \in 1..cols |->
                            NewTile(r - 1, c - 1, pool[(r - 1) * cols + c])]],
         created |-> Min(rows * cols, Len(pool)),
         raised  |-> IF rows * cols > Len(pool) THEN "IndexError" ELSE ""]

\* Board.tile
tile(b, row, col) == b.grid[row + 1][col + 1]

\* mutant of PyInRange: negative indices are rejected
NonNegativeInRange(n, i) == 0 <= i /\ i < n

\* list indexing, as self.grid[row][col] does it: an index i of a list of
\* length n is accepted when -n <= i < n ...
PyInRange(n, i) == -n <= i /\ i < n

\* ... and a negative index counts from the end of the list
PyWrap(n, i) == IF i < 0 THEN i + n ELSE i

\* Board.tile for any integers row, col: the exception raised, or the
\* position of the Tile object returned
tile_lookup(b, row, col) ==
    IF ~PyInRange(Len(b.grid), row)
    THEN [raised |-> "IndexError", pos |-> None]
    ELSE LET r == PyWrap(Len(b.grid), row)
         IN  IF ~PyInRange(Len(b.grid[r + 1]), col)
             THEN [raised |-> "IndexError", pos |-> None]
             ELSE [raised |-> "",
                   pos |-> <<r, PyWrap(Len(b.grid[r + 1]), col)>>]

\* Board.all_revealed
all_revealed(b) == b.matched_pairs * 2 = b.rows * b.cols

\* t.revealed = True
SetRevealed(grid, ref, v) ==
    [grid EXCEPT ![ref[1] + 1][ref[2] + 1].revealed = v]

\* t.matched = True
SetMatched(grid, ref) ==
    [grid EXCEPT ![ref[1] + 1][ref[2] + 1].matched = TRUE]

\* mutant of IsOpen: only matched tiles are ignored
IsMatchedOnly(t) == t.matched

\* reveal: "if t.revealed or t.matched" (clicks on open tiles are ignored)
IsOpen(t) == t.revealed \/ t.matched

\* reveal, first selection of a pair: b already has t.revealed = True
first_selection_step(b, t) ==
    [board |-> [b EXCEPT !.first_selection = t],
     ret   |-> <<t, None, FALSE>>]

\* mutant of second_selection_step: a mismatch is not counted as a move
second_selection_counts_matches(b, t) ==
    LET first   == b.first_selection
        matched == Deref(b.grid, first).identity = Deref(b.grid, t).identity
    IN  [board |-> [b EXCEPT
                      !.first_selection = None,
                      !.moves = IF matched THEN @ + 1 ELSE @,
                      !.grid = IF matched
                               THEN SetMatched(SetMatched(@, first), t)
                               ELSE @,
                      !.matched_pairs = IF matched THEN @ + 1 ELSE @],
         ret   |-> <<first, t, matched>>]

\* mutant of second_selection_step: the two tiles are returned in the
\* opposite order
second_selection_swapped(b, t) ==
    LET first   == b.first_selection
        matched == Deref(b.grid, first).identity = Deref(b.grid, t).identity
    IN  [board |-> [b EXCEPT
                      !.first_selection = None,
                      !.moves = @ + 1,
                      !.grid = IF matched
                               THEN SetMatched(SetMatched(@, first), t)
                               ELSE @,
                      !.matched_pairs = IF matched THEN @ + 1 ELSE @],
         ret   |-> <<t, first, matched>>]

\* mutant of second_selection_step: on a match only the second tile is
\* marked matched
second_selection_marks_second(b, t) ==
    LET first   == b.first_selection
        matched == Deref(b.grid, first).identity = Deref(b.grid, t).identity
    IN  [board |-> [b EXCEPT
                      !.first_selection = None,
                      !.moves = @ + 1,
                      !.grid = IF matched THEN SetMatched(@, t) ELSE @,
                      !.matched_pairs = IF matched THEN @ + 1 ELSE @],
         ret   |-> <<first, t, matched>>]

\* reveal, second selection: b already has t.revealed = True
second_selection_step(b, t) ==
    LET first   == b.first_selection
        matched == Deref(b.grid, first).identity = Deref(b.grid, t).identity
    IN  [board |-> [b EXCEPT
                      !.first_selection = None,
                      !.moves = @ + 1,
                      !.grid = IF matched
                               THEN SetMatched(SetMatched(@, first), t)
                               ELSE @,
                      !.matched_pairs = IF matched THEN @ + 1 ELSE @],
         ret   |-> <<first, t, matched>>]

\* Board.reveal: the board after the call and the value returned
reveal(b, row, col) ==
    LET t == tile(b, row, col)
    IN  IF IsOpen(t)
        THEN [board |-> b, ret |-> <<None, None, FALSE>>]
        ELSE LET b1 == [b EXCEPT !.grid = SetRevealed(@, Ref(t), TRUE)]
             IN  IF b1.first_selection = None
                 THEN first_selection_step(b1, Ref(t))
                 ELSE second_selection_step(b1, Ref(t))

\* mutant of hide_unmatched: only the first tile is hidden
hide_first_only(b, a, bt) ==
    IF Deref(b.grid, a).matched \/ Deref(b.grid, bt).matched
    THEN b
    ELSE [b EXCEPT !.grid = SetRevealed(@, a, FALSE)]

\* mutant of hide_unmatched: the guard on matched tiles is missing
hide_without_guard(b, a, bt) ==
    [b EXCEPT !.grid = SetRevealed(SetRevealed(@, a, FALSE), bt, FALSE)]

\* Board.hide_unmatched: the board after the call
hide_unmatched(b, a, bt) ==
    IF Deref(b.grid, a).matched \/ Deref(b.grid, bt).matched
    THEN b
    ELSE [b EXCEPT !.grid = SetRevealed(SetRevealed(@, a, FALSE), bt, FALSE)]

(***************************************************************************)
(* The state: one Board object and the last call made on it.               *)
(***************************************************************************)
VARIABLES
    board,          \* the fields of the Board object
    built,          \* TRUE once the constructor has returned the object
    raised,         \* the exception the last call raised, "" if none
    call,           \* the last call: [op, args]
    ret,            \* the value the last call returned
    tilesCreated,   \* history: Tile objects constructed by _build
    resolved,       \* history: reveal calls that returned a second tile
    run,            \* history: the calls so far while all were reveals
    mismatchBefore, \* history: <<first, second>> when the call before the
                    \* last one was a reveal returning (first, second, False)
    level_index,    \* MemoryApp.level_index
    pending_hide,   \* MemoryApp._pending_hide: None, or the two Tile objects
                    \* [board, a, b], board numbering the Board they are of
    timers,         \* the after(MISMATCH_HIDE_DELAY, _hide_pending) callbacks
                    \* outstanding, in the order they fall due; each entry
                    \* is the number of the board that was current when it
                    \* was scheduled
    boardId,        \* history: the number of the current Board of the
                    \* session (1 for the first), 0 outside a session
    event,          \* the last event MemoryApp handled
    staleHide,      \* history: hide_unmatched was called with Tile objects
                    \* of a board that new_game had replaced
    seed,           \* history: the seed argument MemoryApp was started with
    rng_seed        \* the seed of the current Board's self.rng

appVars == <<level_index, pending_hide, timers, boardId, event, staleHide,
             seed, rng_seed>>

boardHistory == <<tilesCreated, resolved, run, mismatchBefore>>

vars == <<board, built, raised, call, ret, tilesCreated, resolved, run,
          mismatchBefore, level_index, pending_hide, timers, boardId, event,
          staleHide, seed, rng_seed>>

NoRet == <<None, None, FALSE>>

\* the mismatched pair the last call returned, None if it returned none
MismatchReturned ==
    IF call.op = "reveal" /\ ret[2] # None /\ ~ret[3]
    THEN <<ret[1], ret[2]>>
    ELSE None

\* the level configurations handed to the constructor: every shape of at
\* most MaxTiles tiles, and shapes needing more pairs than the catalog has
LevelInputs ==
    LET N == Len(available_identities)
    IN  {l \in (0..MaxTiles) \X (0..MaxTiles) : l[1] * l[2] <= MaxTiles}
        \cup {<<2, N + 1>>, <<N + 1, 2>>, <<1, 2 * N + 2>>, <<1, 2 * N + 3>>}

Init ==
    /\ board = InitFields(<<0, 0>>)
    /\ built = FALSE
    /\ raised = ""
    /\ call = [op |-> "none", args |-> <<>>]
    /\ ret = NoRet
    /\ tilesCreated = 0
    /\ resolved = 0
    /\ run = [ok |-> TRUE, seq |-> <<>>]
    /\ mismatchBefore = None
    /\ level_index = 0
    /\ pending_hide = None
    /\ timers = <<>>
    /\ boardId = 0
    /\ event = "none"
    /\ staleHide = FALSE
    /\ seed = None
    /\ rng_seed = DEFAULT_SEED

\* Board(level): __init__ and _build
Construct ==
    /\ call.op = "none"
    /\ \E level \in LevelInputs :
         LET b0           == InitFields(level)
             num_tiles    == b0.rows * b0.cols
             needed_pairs == num_tiles \div 2
             ids          == available_identities
             Fails(e)     == /\ board' = b0
                             /\ built' = FALSE
                             /\ raised' = e
                             /\ tilesCreated' = 0
         IN  /\ call' = [op |-> "Board", args |-> level]
             /\ IF ~EvenTiles(num_tiles)
                THEN Fails("AssertionError")
                ELSE IF ~EnoughIdentities(needed_pairs, ids)
                THEN Fails("ValueError")
                ELSE \E chosen \in SampleOutcomes(ids, needed_pairs) :
                     \E pool \in ShuffleOutcomes(MakePool(chosen)) :
                        LET f == FillGrid(b0.rows, b0.cols, pool)
                        IN  /\ board' = [b0 EXCEPT !.grid = f.grid]
                            /\ built' = (f.raised = "")
                            /\ raised' = f.raised
                            /\ tilesCreated' = f.created
    /\ UNCHANGED <<ret, resolved, run, mismatchBefore>>
    /\ UNCHANGED appVars

\* board.reveal(row, col) with an in-bounds position
Reveal ==
    /\ built
    /\ \E row \in 0..(board.rows - 1), col \in 0..(board.cols - 1) :
         LET r == reveal(board, row, col)
         IN  /\ r.board.moves <= MaxMoves
             /\ board' = r.board
             /\ ret' = r.ret
             /\ call' = [op |-> "reveal", args |-> <<row, col>>]
             /\ resolved' = IF r.ret[2] # None THEN resolved + 1 ELSE resolved
             /\ run' = IF run.ok /\ Len(run.seq) < board.rows * board.cols
                       THEN [run EXCEPT !.seq = Append(@, <<row, col>>)]
                       ELSE [ok |-> FALSE, seq |-> <<>>]
    /\ mismatchBefore' = MismatchReturned
    /\ raised' = ""
    /\ UNCHANGED <<built, tilesCreated>>
    /\ UNCHANGED appVars

\* board.hide_unmatched(a, b) with any two tiles of the board
HideUnmatched ==
    /\ built
    /\ \E a \in TileRefs(board.grid), bt \in TileRefs(board.grid) :
         /\ board' = hide_unmatched(board, a, bt)
         /\ call' = [op |-> "hide_unmatched", args |-> <<a, bt>>]
    /\ ret' = NoRet
    /\ run' = [ok |-> FALSE, seq |-> <<>>]
    /\ mismatchBefore' = MismatchReturned
    /\ raised' = ""
    /\ UNCHANGED <<built, tilesCreated, resolved>>
    /\ UNCHANGED appVars

Next == Construct \/ Reveal \/ HideUnmatched

Spec == Init /\ [][Next]_vars

(***************************************************************************)
(* Calls with a position outside 0 <= row < rows, 0 <= col < cols.         *)
(***************************************************************************)
\* the positions tried: one step beyond the accepted indices on each side
OutsidePositions ==
    {p \in ((-(board.rows + 1))..board.rows)
              \X ((-(board.cols + 1))..board.cols) :
        ~(0 <= p[1] /\ p[1] < board.rows /\ 0 <= p[2] /\ p[2] < board.cols)}

\* board.reveal(row, col) with a position outside the board
RevealOutside ==
    /\ built
    /\ \E p \in OutsidePositions :
         LET l == tile_lookup(board, p[1], p[2])
         IN  /\ call' = [op |-> "reveal", args |-> p]
             /\ raised' = l.raised
             /\ IF l.raised # ""
                THEN /\ board' = board
                     /\ ret' = NoRet
                     /\ resolved' = resolved
                ELSE LET r == reveal(board, l.pos[1], l.pos[2])
                     IN  /\ r.board.moves <= MaxMoves
                         /\ board' = r.board
                         /\ ret' = r.ret
                         /\ resolved' = IF r.ret[2] # None
                                        THEN resolved + 1 ELSE resolved
    /\ run' = [ok |-> FALSE, seq |-> <<>>]
    /\ mismatchBefore' = MismatchReturned
    /\ UNCHANGED <<built, tilesCreated>>
    /\ UNCHANGED appVars

\* board.tile(row, col) with a position outside the board
TileOutside ==
    /\ built
    /\ \E p \in OutsidePositions :
         LET l == tile_lookup(board, p[1], p[2])
         IN  /\ call' = [op |-> "tile", args |-> p]
             /\ raised' = l.raised
             /\ ret' = <<l.pos, None, FALSE>>
    /\ run' = [ok |-> FALSE, seq |-> <<>>]
    /\ mismatchBefore' = MismatchReturned
    /\ UNCHANGED <<board, built, tilesCreated, resolved>>
    /\ UNCHANGED appVars

NextBounds == Construct \/ Reveal \/ RevealOutside \/ TileOutside

SpecBounds == Init /\ [][NextBounds]_vars

(***************************************************************************)
(* ui.py: a MemoryApp session (clicks, hide timers, new games).            *)
(***************************************************************************)
\* settings.LEVELS = (EASY, MEDIUM, HARD).  The presets are 4x4, 4x6 and
\* 6x6; a session is explored on three shapes of at most four tiles in
\* their place (ui.py reads the size of a level only to lay out the canvas)
LEVELS == << <<1, 2>>, <<2, 2>>, <<1, 4>> >>

\* the boards Board(level) can return (none when the constructor raises)
NewBoards(level) ==
    LET b0           == InitFields(level)
        num_tiles    == b0.rows * b0.cols
        needed_pairs == num_tiles \div 2
        ids          == available_identities
    IN  IF ~EvenTiles(num_tiles) \/ ~EnoughIdentities(needed_pairs, ids)
        THEN {}
        ELSE {[b0 EXCEPT !.grid = FillGrid(b0.rows, b0.cols, pool).grid] :
                pool \in {q \in UNION {ShuffleOutcomes(MakePool(chosen)) :
                                chosen \in SampleOutcomes(ids, needed_pairs)} :
                            FillGrid(b0.rows, b0.cols, q).raised = ""}}

\* the seeds a session is started with (--seed): None, or an integer n,
\* written <<n>>
Seeds == {None} \cup {<<n>> : n \in 1..MaxSeed}

\* the n-th element of a finite set, in a fixed order
RECURSIVE Nth(_, _)
Nth(S, n) ==
    LET x == CHOOSE y \in S : TRUE
    IN  IF n = 0 THEN x ELSE Nth(S \ {x}, n - 1)

\* Board(level, seed): Random(seed) makes sample and shuffle a fixed
\* function of the seed, Random(None) leaves every outcome possible
BoardOutcomes(level, s) ==
    LET all == NewBoards(level)
    IN  IF s = None \/ all = {}
        THEN all
        ELSE {Nth(all, s[1] % Cardinality(all))}

\* new_game: Board(LEVELS[idx]) is called without a seed
new_game_seed(s) == DEFAULT_SEED

\* _hit_test: the tile under the pointer, None for a click on no tile
HitResults == TileRefs(board.grid) \cup {None}

\* mutant of click_blocked: clicks are handled while a hide is pending
click_never_blocked(pending) == FALSE

\* _on_click: "if self._pending_hide is not None: return"
click_blocked(pending) == pending # None

\* mutant of schedule_hide: the hide callback is not scheduled
schedule_nothing(queue, id) == queue

\* self.after(MISMATCH_HIDE_DELAY, self._hide_pending): callbacks scheduled
\* with one delay fall due in the order they were scheduled
schedule_hide(queue, id) == Append(queue, id)

\* mutant of new_game_pending: new_game keeps the pending hide
new_game_keeps_pending(pending) == pending

\* new_game: self._pending_hide = None
new_game_pending(pending) == None

\* MemoryApp(level_index, seed): __init__
AppStart ==
    /\ event = "none"
    /\ call.op = "none"
    /\ \E i \in 0..(Len(LEVELS) - 1), s \in Seeds :
         /\ level_index' = i
         /\ seed' = s
         /\ rng_seed' = s
         /\ board' \in BoardOutcomes(LEVELS[i + 1], s)
    /\ built' = TRUE
    /\ boardId' = 1
    /\ pending_hide' = None
    /\ event' = "start"
    /\ UNCHANGED <<raised, call, ret, timers, staleHide>>
    /\ UNCHANGED boardHistory

\* the part of new_game that replaces the session state
NewGame(i) ==
    /\ boardId < MaxGames
    /\ level_index' = i
    /\ rng_seed' = new_game_seed(seed)
    /\ board' \in BoardOutcomes(LEVELS[i + 1], rng_seed')
    /\ boardId' = boardId + 1
    /\ pending_hide' = new_game_pending(pending_hide)

\* <Button-1>: _on_click, with _maybe_finish and new_game when the click
\* completes the board
Click ==
    /\ event # "none"
    /\ event' = "click"
    /\ \E hit \in HitResults :
         IF click_blocked(pending_hide) \/ hit = None
         THEN /\ call' = [op |-> "none", args |-> <<>>]
              /\ ret' = NoRet
              /\ UNCHANGED <<board, level_index, pending_hide, timers,
                             boardId, rng_seed>>
         ELSE LET r == reveal(board, hit[1], hit[2])
              IN  /\ r.board.moves <= MaxMoves
                  /\ call' = [op |-> "reveal", args |-> hit]
                  /\ ret' = r.ret
                  /\ IF r.ret[2] = None
                     THEN /\ board' = r.board
                          /\ UNCHANGED <<level_index, pending_hide, timers,
                                         boardId, rng_seed>>
                     ELSE IF r.ret[3]
                     THEN IF all_revealed(r.board)
                          THEN NewGame(level_index) /\ UNCHANGED timers
                          ELSE /\ board' = r.board
                               /\ UNCHANGED <<level_index, pending_hide,
                                              timers, boardId, rng_seed>>
                     ELSE /\ board' = r.board
                          /\ pending_hide' = [board |-> boardId,
                                              a |-> r.ret[1], b |-> r.ret[2]]
                          /\ timers' = schedule_hide(timers, boardId)
                          /\ UNCHANGED <<level_index, boardId, rng_seed>>
    /\ UNCHANGED <<built, raised, staleHide, seed>>
    /\ UNCHANGED boardHistory

\* a scheduled callback falls due: _hide_pending
TimerFires ==
    /\ timers # <<>>
    /\ timers' = Tail(timers)
    /\ event' = "timer"
    /\ IF pending_hide = None
       THEN /\ call' = [op |-> "none", args |-> <<>>]
            /\ UNCHANGED <<board, pending_hide, staleHide>>
       ELSE /\ pending_hide' = None
            /\ call' = [op |-> "hide_unmatched",
                        args |-> <<pending_hide.a, pending_hide.b>>]
            /\ IF pending_hide.board = boardId
               THEN /\ board' = hide_unmatched(board, pending_hide.a,
                                               pending_hide.b)
                    /\ UNCHANGED staleHide
               ELSE /\ staleHide' = TRUE
                    /\ UNCHANGED board
    /\ ret' = NoRet
    /\ UNCHANGED <<built, raised, level_index, boardId, seed, rng_seed>>
    /\ UNCHANGED boardHistory

\* <Key-n>, <Key-e>, <Key-m>, <Key-h>: new_game
NewGameKey ==
    /\ event # "none"
    /\ event' = "new_game"
    /\ \E i \in 0..(Len(LEVELS) - 1) : NewGame(i)
    /\ call' = [op |-> "none", args |-> <<>>]
    /\ ret' = NoRet
    /\ UNCHANGED <<built, raised, timers, staleHide, seed>>
    /\ UNCHANGED boardHistory

NextApp == AppStart \/ Click \/ TimerFires \/ NewGameKey

SpecApp == Init /\ [][NextApp]_vars

\* every scheduled callback eventually fires
SpecAppFair == SpecApp /\ WF_vars(TimerFires)

(***************************************************************************)
(* Properties.                                                             *)
(***************************************************************************)
\* the tiles of the board
Tiles == TileRefs(board.grid)

\* the Tile object of the board behind a reference
TileAt(ref) == board.grid[ref[1] + 1][ref[2] + 1]

\* the tiles that carry the identity of tile t
SameIdentity(t) == {u \in Tiles : TileAt(u).identity = TileAt(t).identity}

\* C1: a constructed board has exactly rows*cols tiles and every identity on
\* it is carried by exactly 2 tiles, right after construction and after any
\* later reveal and hide_unmatched calls.
C1_PairingInvariant ==
    built =>
        /\ Cardinality(Tiles) = board.rows * board.cols
        /\ \A t \in Tiles : Cardinality(SameIdentity(t)) = 2

\* C1 witness: a 4-tile board, later in its life (after a second selection
\* was resolved and a hide_unmatched call).
C1_Witness ==
    /\ built
    /\ Cardinality(Tiles) = 4
    /\ call.op = "hide_unmatched"
    /\ board.moves >= 1

\* C2: moves equals the number of reveal calls that returned a second tile;
\* each such call adds exactly 1 to moves, matched or not, and no other call
\* changes moves.
C2_MovesCountResolvedTurns ==
    /\ [](built => board.moves = resolved)
    /\ [][board'.moves =
            IF call'.op = "reveal" /\ ret'[2] # None
            THEN board.moves + 1
            ELSE board.moves]_vars

\* C2 witness: a second selection that did not match was just resolved, after
\* an earlier resolved turn.
C2_Witness ==
    /\ built
    /\ call.op = "reveal"
    /\ ret[2] # None
    /\ ~ret[3]
    /\ board.moves = 2

\* the value the reference says reveal(row, col) returns from board b
ReferenceReturn(b, row, col) ==
    LET t == b.grid[row + 1][col + 1]
    IN  IF t.revealed \/ t.matched
        THEN <<None, None, FALSE>>
        ELSE IF b.first_selection = None
        THEN <<(<<row, col>>), None, FALSE>>
        ELSE <<b.first_selection, <<row, col>>,
               Deref(b.grid, b.first_selection).identity = t.identity>>

\* C3: every in-bounds reveal returns what the reference says for the state
\* it was called in.
C3_RevealReturnsReference ==
    [][call'.op = "reveal" =>
         ret' = ReferenceReturn(board, call'.args[1], call'.args[2])]_vars

\* C3 witness: a reveal just returned (first, second, True) for two
\* different tiles.
C3_Witness ==
    /\ built
    /\ call.op = "reveal"
    /\ ret[2] # None
    /\ ret[3]
    /\ ret[1] # ret[2]

\* C4: a reveal that resolves a second selection marks both tiles matched and
\* adds 1 to matched_pairs when the identities are equal; otherwise it leaves
\* both tiles revealed and unmatched and matched_pairs as it was; and tiles
\* left revealed and unmatched (not pending) stay so until a hide_unmatched
\* call is made on them.
C4_SecondRevealOutcome ==
    /\ [][(call'.op = "reveal" /\ ret'[2] # None) =>
            LET f == Deref(board'.grid, ret'[1])
                s == Deref(board'.grid, ret'[2])
            IN  IF Deref(board.grid, ret'[1]).identity
                     = Deref(board.grid, ret'[2]).identity
                THEN /\ f.matched /\ s.matched
                     /\ board'.matched_pairs = board.matched_pairs + 1
                ELSE /\ f.revealed /\ ~f.matched
                     /\ s.revealed /\ ~s.matched
                     /\ board'.matched_pairs = board.matched_pairs]_vars
    /\ [][\A t \in Tiles :
            ( /\ built
              /\ TileAt(t).revealed /\ ~TileAt(t).matched
              /\ board.first_selection # t
              /\ ~(call'.op = "hide_unmatched"
                   /\ t \in {call'.args[1], call'.args[2]}) )
            => /\ Deref(board'.grid, t).revealed
               /\ ~Deref(board'.grid, t).matched]_vars

\* C5: reveal on a tile that is already revealed or matched leaves every
\* field of the board as it was: moves, matched_pairs, the pending selection
\* and the flags of every tile.
C5_IgnoredRevealChangesNothing ==
    [][(call'.op = "reveal"
        /\ LET t == board.grid[call'.args[1] + 1][call'.args[2] + 1]
           IN  t.revealed \/ t.matched)
       => board' = board]_vars

\* C5 witness: a reveal was just ignored (it returned (None, None, False))
\* while a first selection was pending and a turn had been played.
C5_Witness ==
    /\ built
    /\ call.op = "reveal"
    /\ ret = <<None, None, FALSE>>
    /\ board.first_selection # None
    /\ board.moves >= 1

\* C6: hide_unmatched(first, second) called right after the reveal that
\* returned (first, second, False) leaves both tiles with revealed = false,
\* and the same call made once more changes nothing on the board.
C6_HideAfterMismatch ==
    /\ []((call.op = "hide_unmatched" /\ mismatchBefore # None
           /\ call.args = mismatchBefore)
          => /\ ~TileAt(call.args[1]).revealed
             /\ ~TileAt(call.args[2]).revealed)
    /\ [][(call.op = "hide_unmatched" /\ mismatchBefore # None
           /\ call.args = mismatchBefore
           /\ call'.op = "hide_unmatched" /\ call'.args = call.args)
          => board' = board]_vars

\* C6 witness: hide_unmatched(first, second) was just called on the pair the
\* preceding reveal returned as a mismatch.
C6_Witness ==
    /\ built
    /\ call.op = "hide_unmatched"
    /\ mismatchBefore # None
    /\ call.args = mismatchBefore

\* C7: hide_unmatched(a, b) changes nothing but the revealed flags of a and
\* b, and changes nothing at all when a or b is matched.
C7_HideFrame ==
    [][call'.op = "hide_unmatched" =>
         LET a  == call'.args[1]
             bt == call'.args[2]
         IN  /\ board'.moves = board.moves
             /\ board'.matched_pairs = board.matched_pairs
             /\ board'.first_selection = board.first_selection
             /\ board'.rows = board.rows /\ board'.cols = board.cols
             /\ TileRefs(board'.grid) = Tiles
             /\ \A t \in Tiles :
                  /\ Deref(board'.grid, t).matched = TileAt(t).matched
                  /\ Deref(board'.grid, t).identity = TileAt(t).identity
                  /\ t \notin {a, bt} => Deref(board'.grid, t) = TileAt(t)
             /\ (TileAt(a).matched \/ TileAt(bt).matched) => board' = board]_vars

\* C7 witness: hide_unmatched was just called with a matched tile and a tile
\* that is revealed and not matched.
C7_Witness ==
    /\ built
    /\ call.op = "hide_unmatched"
    /\ TileAt(call.args[1]).matched
    /\ TileAt(call.args[2]).revealed
    /\ ~TileAt(call.args[2]).matched

\* C8: all_revealed() is false while matched_pairs*2 differs from
\* rows*cols, and once true it stays true after every further reveal and
\* hide_unmatched call.
C8_AllRevealedStaysTrue ==
    /\ [](built =>
            (board.matched_pairs * 2 # board.rows * board.cols
                => ~all_revealed(board)))
    /\ [][(built /\ all_revealed(board)) => all_revealed(board')]_vars

\* a run of reveal calls that takes the two tiles of one identity after the
\* two tiles of another: no tile twice, and every second call on a tile with
\* the identity of the tile before it
IsPairRun(seq) ==
    /\ \A i, j \in 1..Len(seq) : i # j => seq[i] # seq[j]
    /\ \A i \in 1..Len(seq) :
         i % 2 = 0 => TileAt(seq[i]).identity = TileAt(seq[i - 1]).identity

\* C9: from a fresh board, revealing the two tiles of each identity, one
\* pair after the other, returns matched = true on every second reveal, and
\* once all pairs are done moves = rows*cols/2, all_revealed() is true and
\* every tile is matched.
C9_PairsInOrderComplete ==
    (built /\ run.ok /\ IsPairRun(run.seq)) =>
        /\ (Len(run.seq) > 0 /\ Len(run.seq) % 2 = 0)
              => (call.op = "reveal" /\ ret[2] # None /\ ret[3])
        /\ Len(run.seq) = board.rows * board.cols
              => /\ board.moves = (board.rows * board.cols) \div 2
                 /\ all_revealed(board)
                 /\ \A t \in Tiles : TileAt(t).matched

\* C9 witness: the two pairs of a 2x2 board have been revealed one after the
\* other.
C9_Witness ==
    /\ built
    /\ board.rows = 2 /\ board.cols = 2
    /\ run.ok
    /\ IsPairRun(run.seq)
    /\ Len(run.seq) = 4

\* C10: Board(level) raises, with no tile created and no board returned, when
\* rows*cols is odd or rows*cols/2 exceeds the 8 x 9 catalog identities;
\* otherwise it returns a board of rows*cols hidden, unmatched tiles with
\* moves = 0, matched_pairs = 0 and no pending selection.
C10_ConstructionOutcome ==
    call.op = "Board" =>
        LET rows == call.args[1]
            cols == call.args[2]
        IN  IF (rows * cols) % 2 = 1
               \/ (rows * cols) \div 2 > NumGlyphs * NumColors
            THEN /\ raised # ""
                 /\ ~built
                 /\ tilesCreated = 0
                 /\ board.grid = <<>>
            ELSE /\ raised = ""
                 /\ built
                 /\ board.rows = rows /\ board.cols = cols
                 /\ Cardinality(Tiles) = rows * cols
                 /\ \A t \in Tiles :
                      ~TileAt(t).revealed /\ ~TileAt(t).matched
                 /\ board.moves = 0
                 /\ board.matched_pairs = 0
                 /\ board.first_selection = None

\* C10 witness: the constructor was called for an even number of tiles that
\* needs more pairs than the catalog has, and raised.
C10_Witness ==
    /\ call.op = "Board"
    /\ (call.args[1] * call.args[2]) % 2 = 0
    /\ raised = "ValueError"

\* C12: matched_pairs * 2 equals the number of tiles whose matched flag is
\* true, after any sequence of reveal and hide_unmatched calls.
C12_MatchedPairsCountTiles ==
    built =>
        board.matched_pairs * 2
            = Cardinality({t \in Tiles : TileAt(t).matched})

\* C13: the pending first selection is empty or is one tile of the board
\* that is revealed and not matched.
C13_PendingIsRevealedUnmatched ==
    (built /\ board.first_selection # None) =>
        /\ board.first_selection \in Tiles
        /\ TileAt(board.first_selection).revealed
        /\ ~TileAt(board.first_selection).matched

\* C14: every tile with matched = true has revealed = true.
C14_MatchedImpliesRevealed ==
    built => \A t \in Tiles : TileAt(t).matched => TileAt(t).revealed

\* C15: a matched tile stays matched, a matched tile that is revealed stays
\* revealed, and matched_pairs and moves never decrease.
C15_MatchedIsTerminal ==
    [][built =>
         /\ \A t \in Tiles :
              TileAt(t).matched =>
                 /\ Deref(board'.grid, t).matched
                 /\ TileAt(t).revealed => Deref(board'.grid, t).revealed
         /\ board'.matched_pairs >= board.matched_pairs
         /\ board'.moves >= board.moves]_vars

\* C15 witness: hide_unmatched was just called on a matched, revealed tile
\* together with a tile that is not matched.
C15_Witness ==
    /\ built
    /\ call.op = "hide_unmatched"
    /\ TileAt(call.args[1]).matched
    /\ TileAt(call.args[1]).revealed
    /\ ~TileAt(call.args[2]).matched
    /\ board.moves = 2

\* a position outside 0 <= row < rows, 0 <= col < cols
IsOutside(p) ==
    ~(0 <= p[1] /\ p[1] < board.rows /\ 0 <= p[2] /\ p[2] < board.cols)

\* C20 as stated: reveal(row, col) and tile(row, col) with a position outside
\* the board, negative indices included, raise an error and leave the board
\* unchanged.
C20_OutsideAlwaysFails ==
    [][(call'.op \in {"reveal", "tile"} /\ IsOutside(call'.args)) =>
         (raised' # "" /\ board' = board)]_vars

\* C20 amended: with row outside -rows..rows-1 or col outside -cols..cols-1
\* the call raises IndexError and leaves the board unchanged; a negative
\* index inside that range raises nothing: it denotes the tile at
\* (row mod rows, col mod cols), which tile returns and on which reveal acts
\* as an in-bounds call.
C20_OutsideFailsOrWraps ==
    [][(call'.op \in {"reveal", "tile"} /\ IsOutside(call'.args)) =>
         LET row == call'.args[1]
             col == call'.args[2]
         IN  IF /\ -board.rows <= row /\ row < board.rows
                /\ -board.cols <= col /\ col < board.cols
             THEN LET wr == row % board.rows
                      wc == col % board.cols
                  IN  /\ raised' = ""
                      /\ IF call'.op = "tile"
                         THEN ret'[1] = <<wr, wc>> /\ board' = board
                         ELSE /\ ret' = ReferenceReturn(board, wr, wc)
                              /\ Deref(board'.grid, <<wr, wc>>).revealed
                                    \/ TileAt(<<wr, wc>>).matched
             ELSE raised' = "IndexError" /\ board' = board]_vars

\* C20 witness: reveal was just called with a negative index and returned
\* the tile it revealed.
C20_Witness ==
    /\ built
    /\ call.op = "reveal"
    /\ call.args[1] < 0
    /\ raised = ""
    /\ ret[1] # None

\* C16: a hide callback scheduled before new_game replaced the board is
\* ignored when it fires afterwards: it changes no tile of the old or of the
\* new board and does not clear the pending hide of the new board.
C16_StaleCallbackIgnored ==
    [][(event' = "timer" /\ timers # <<>> /\ Head(timers) < boardId) =>
         /\ board' = board
         /\ pending_hide' = pending_hide
         /\ staleHide' = staleHide]_vars

\* the tiles of the board that are revealed and not matched
OpenUnmatched == {t \in Tiles : TileAt(t).revealed /\ ~TileAt(t).matched}

\* C17: while _pending_hide is set a click makes no Board.reveal call and
\* leaves the board unchanged, and the current board never has more than two
\* tiles that are revealed and not matched.
C17_ClicksBlockedWhilePending ==
    /\ [][(event' = "click" /\ pending_hide # None) =>
            (call'.op # "reveal" /\ board' = board)]_vars
    /\ [](Cardinality(OpenUnmatched) <= 2)

\* C17 witness: a click was just handled while a hide was pending and two
\* tiles were revealed and not matched.
C17_Witness ==
    /\ event = "click"
    /\ call.op = "none"
    /\ pending_hide # None
    /\ Cardinality(OpenUnmatched) = 2

\* C18: provided every scheduled callback eventually fires, a pending hide
\* always has a callback outstanding, it ends only by new_game replacing the
\* board or by a callback calling hide_unmatched with the same two tiles
\* (which are hidden afterwards), and it always ends.
C18_MismatchEventuallyHidden ==
    /\ [](pending_hide # None => timers # <<>>)
    /\ [][(pending_hide # None /\ pending_hide' # pending_hide) =>
            \/ boardId' # boardId
            \/ /\ event' = "timer"
               /\ pending_hide.board = boardId
               /\ call' = [op |-> "hide_unmatched",
                           args |-> <<pending_hide.a, pending_hide.b>>]
               /\ ~Deref(board'.grid, pending_hide.a).revealed
               /\ ~Deref(board'.grid, pending_hide.b).revealed]_vars
    /\ (pending_hide # None) ~> (pending_hide = None)

\* C18 witness: on the first board a callback just called hide_unmatched and
\* the two tiles are hidden.
C18_Witness ==
    /\ event = "timer"
    /\ boardId = 1
    /\ call.op = "hide_unmatched"
    /\ ~TileAt(call.args[1]).revealed
    /\ ~TileAt(call.args[2]).revealed

\* C19: in a MemoryApp session every hide_unmatched call receives two tiles
\* of the current board that are revealed and not matched, while no first
\* selection is pending on the board.
C19_HideArgumentsInSession ==
    /\ [][(event' = "timer" /\ call'.op = "hide_unmatched") =>
            /\ pending_hide # None
            /\ pending_hide.board = boardId
            /\ call'.args = <<pending_hide.a, pending_hide.b>>
            /\ \A t \in {pending_hide.a, pending_hide.b} :
                 /\ t \in Tiles
                 /\ TileAt(t).revealed
                 /\ ~TileAt(t).matched
            /\ board.first_selection = None]_vars
    /\ [](~staleHide)

\* C19 witness: on the second board of a session a callback just called
\* hide_unmatched.
C19_Witness ==
    /\ event = "timer"
    /\ boardId = 2
    /\ call.op = "hide_unmatched"

\* C21: after any reveal and hide_unmatched calls, all_revealed() is true
\* exactly when every tile of the board is matched, and no reveal matches a
\* tile with itself.
C21_CompleteIffAllMatched ==
    /\ [](built =>
            (all_revealed(board) <=> \A t \in Tiles : TileAt(t).matched))
    /\ [][(call'.op = "reveal" /\ ret'[2] # None /\ ret'[3]) =>
            ret'[1] # ret'[2]]_vars

\* C22: in a session started with a seed, every Board of the session, the
\* first one and each one built by new_game, is constructed with that seed.
C22_SeedUsedForEveryBoard ==
    (boardId >= 1 /\ seed # None) => rng_seed = seed

====
